---- MODULE Spec2Model ----
(***************************************************************************)
(* A model of sunpy/database/tables.py: the records FitsHeaderEntry, Tag   *)
(* and DatabaseEntry with their equality operators, the ingestion of FITS  *)
(* headers and VSO query result blocks, the directory scan and the table   *)
(* display.                                                                *)
(*                                                                         *)
(* Python values are tagged records [t, s, n]: t is the Python type, s the *)
(* text of a str, n the number of an int, bool, float or datetime.  A      *)
(* float is held as a scaled integer; the scale is stated where it is      *)
(* used.                                                                   *)
(***************************************************************************)
EXTENDS Integers, Sequences, FiniteSets, TLC

VARIABLES
    hx, hy, hres,         \* two FitsHeaderEntry objects and their last comparison
    a, b, eqres, nset,    \* two DatabaseEntry objects, their last comparison, assignments made
    entry, pre, call, exc, ncalls,  \* ingestion: the entry worked on, its value before
                                    \* the last call, that call, its outcome, calls made
    fs, gen, yielded, genout, io,   \* directory scan: the directories as os.walk lists
                                    \* them, the frame of the generator, the items it
                                    \* yielded, the outcome of the last next(), the
                                    \* directories listed and files classified and decoded
    targs, tout                     \* display: the arguments of the call, its outcome

varsHdrEq == <<hx, hy, hres>>
varsEq == <<a, b, eqres, nset>>
varsIngest == <<entry, pre, call, exc, ncalls>>
varsDir == <<fs, gen, yielded, genout, io>>
varsTable == <<targs, tout>>
vars == <<hx, hy, hres, a, b, eqres, nset, entry, pre, call, exc, ncalls,
          fs, gen, yielded, genout, io, targs, tout>>

----------------------------------------------------------------------------
(* Python values *)

None == [t |-> "None", s |-> "", n |-> 0]
PyStr(x) == [t |-> "str", s |-> x, n |-> 0]
PyInt(x) == [t |-> "int", s |-> "", n |-> x]
PyFloat(x) == [t |-> "float", s |-> "", n |-> x]
PyBool(x) == [t |-> "bool", s |-> "", n |-> IF x THEN 1 ELSE 0]
PyTime(x) == [t |-> "datetime", s |-> "", n |-> x]
PyDict(x) == [t |-> "dict", s |-> x, n |-> 0]

\* bool(v): None, 0, 0.0, False, '' and {} are false, everything else true
bool(v) ==
    CASE v.t = "None" -> FALSE
      [] v.t \in {"int", "float", "bool"} -> v.n # 0
      [] v.t = "str" -> v.s # ""
      [] v.t = "dict" -> v.s # "{}"
      [] OTHER -> TRUE

\* v == w on two values: numbers compare by value, the rest by type and content
PyEq(v, w) ==
    IF v.t \in {"int", "bool"} /\ w.t \in {"int", "bool"}
    THEN v.n = w.n
    ELSE v = w

Digit(d) ==
    CASE d = 0 -> "0" [] d = 1 -> "1" [] d = 2 -> "2" [] d = 3 -> "3"
      [] d = 4 -> "4" [] d = 5 -> "5" [] d = 6 -> "6" [] d = 7 -> "7"
      [] d = 8 -> "8" [] d = 9 -> "9"

RECURSIVE NatText(_)
NatText(k) == IF k < 10 THEN Digit(k) ELSE NatText(k \div 10) \o Digit(k % 10)

IntText(k) == IF k < 0 THEN "-" \o NatText(-k) ELSE NatText(k)

----------------------------------------------------------------------------
(* FitsHeaderEntry *)

\* FitsHeaderEntry(key, value): the id is unset until the entry is persisted
FitsHeaderEntry(key, value) == [id |-> None, key |-> key, value |-> value]

FitsHeaderEntry_eq_strict(self, other) ==
    /\ PyEq(self.id, other.id)
    /\ self.key = other.key
    /\ PyEq(self.value, other.value)

FitsHeaderEntry_eq(self, other) ==
    /\ (PyEq(self.id, other.id) \/ self.id = None \/ other.id = None)
    /\ self.key = other.key
    /\ PyEq(self.value, other.value)

FitsHeaderEntry_ne(self, other) == ~FitsHeaderEntry_eq(self, other)

----------------------------------------------------------------------------
(* Tag *)

Tag(name) == [name |-> name]

Tag_eq(self, other) == self.name = other.name

----------------------------------------------------------------------------
(* DatabaseEntry *)

\* DatabaseEntry(): every column is unset (the column default of starred is
\* applied by the persistence layer only), both relationships are empty lists
NewEntry ==
    [id |-> None, source |-> None, provider |-> None, physobs |-> None,
     fileid |-> None, observation_time_start |-> None,
     observation_time_end |-> None, instrument |-> None, size |-> None,
     wavemin |-> None, wavemax |-> None, path |-> None,
     download_time |-> None, starred |-> None,
     fits_header_entries |-> <<>>, tags |-> <<>>]

\* round(x, 10) on a float held in units of 1e-12: to the nearest multiple of
\* RoundUnit (1e-10), a half rounding away from zero
RoundUnit == 100

round9(x) ==
    IF x >= 0 THEN ((x + 5 * RoundUnit) \div (10 * RoundUnit)) * (10 * RoundUnit)
    ELSE -(((-x + 5 * RoundUnit) \div (10 * RoundUnit)) * (10 * RoundUnit))

round10(x) ==
    IF x >= 0 THEN ((2 * x + RoundUnit) \div (2 * RoundUnit)) * RoundUnit
    ELSE -(((2 * (-x) + RoundUnit) \div (2 * RoundUnit)) * RoundUnit)

\* wavemins_equal / wavemaxs_equal
waves_equal(x, y) ==
    \/ x = None /\ y = None
    \/ x # None /\ y # None /\ round10(x.n) = round10(y.n)

ids_match_strict(x, y) == PyEq(x, y)

ids_match(x, y) == PyEq(x, y) \/ x = None \/ y = None

\* list == list: the same length and equal elements at every position
headers_equal(xs, ys) ==
    /\ Len(xs) = Len(ys)
    /\ \A i \in 1..Len(xs) : FitsHeaderEntry_eq(xs[i], ys[i])

tags_equal(xs, ys) ==
    /\ Len(xs) = Len(ys)
    /\ \A i \in 1..Len(xs) : Tag_eq(xs[i], ys[i])

DatabaseEntry_eq(self, other) ==
    /\ ids_match(self.id, other.id)
    /\ PyEq(self.source, other.source)
    /\ PyEq(self.provider, other.provider)
    /\ PyEq(self.physobs, other.physobs)
    /\ PyEq(self.fileid, other.fileid)
    /\ PyEq(self.observation_time_start, other.observation_time_start)
    /\ PyEq(self.observation_time_end, other.observation_time_end)
    /\ PyEq(self.instrument, other.instrument)
    /\ PyEq(self.size, other.size)
    /\ waves_equal(self.wavemin, other.wavemin)
    /\ waves_equal(self.wavemax, other.wavemax)
    /\ PyEq(self.path, other.path)
    /\ PyEq(self.download_time, other.download_time)
    /\ bool(self.starred) = bool(other.starred)
    /\ headers_equal(self.fits_header_entries, other.fits_header_entries)
    /\ tags_equal(self.tags, other.tags)

DatabaseEntry_ne(self, other) == ~DatabaseEntry_eq(self, other)

----------------------------------------------------------------------------
(* The collaborators of the ingestion: the FITS decoder, the unit resolver, *)
(* the time parsers.  A path is a sequence of characters.                   *)

\* the FITS files of the file system: path, header blocks (lists of key/value pairs)
KV(k, v) == [key |-> k, value |-> v]

FitsFiles ==
    {[name |-> <<"a", ".", "f">>,
      blocks |-> <<
         <<KV("INSTRUME", PyStr("AIA")), KV("WAVELNTH", PyInt(171)),
           KV("WAVEUNIT", PyStr("Angstrom")),
           KV("DATE-OBS", PyStr("2011-03-19T10:54:00"))>>,
         <<KV("INSTRUME", PyStr("EXT")), KV("WAVELNTH", PyInt(94))>> >>],
     [name |-> <<"e", ".", "f">>,
      blocks |-> <<
         <<KV("", PyInt(0)), KV("KEYCOMMENTS", PyDict("{'NAXIS': 'axes'}")),
           KV("INSTRUME", PyStr("EIT")), KV("WAVELNTH", PyInt(195))>> >>],
     [name |-> <<"r", ".", "f">>,
      blocks |-> <<
         <<KV("INSTRUME", PyStr("RHESSI")),
           KV("DATE_OBS", PyStr("2002-02-20T11:06:00")),
           KV("DATE_END", PyStr("2002-02-20T11:06:43"))>> >>],
     [name |-> <<"n", ".", "f">>,
      blocks |-> <<
         <<KV("WAVELNTH", PyInt(171)), KV("WAVEUNIT", PyStr("nonsense"))>> >>],
     [name |-> <<"d", ".", "f">>,
      blocks |-> <<
         <<KV("DATE-OBS", PyStr("2011-03-19T10:54:00")),
           KV("DATE_OBS", PyStr("2002-02-20T11:06:00")),
           KV("DATE_END", PyStr("2002-02-20T11:06:43")),
           KV("DATE-END", PyStr("2011-03-19T10:54:00")),
           KV("WAVEUNIT", PyStr("nm")), KV("WAVELNTH", PyInt(17))>> >>]}

\* the files that are no FITS files, and what the classifier says of each
OtherFiles ==
    {[name |-> <<"j", ".", "f">>, filetype |-> "jp2"],
     [name |-> <<"x", ".", "f">>, filetype |-> "UnrecognizedFileTypeError"],
     [name |-> <<"b", ".", "f">>, filetype |-> "InvalidJPEG2000FileExtension"]}

FitsPaths == {f.name : f \in FitsFiles}

\* the positions of the character c in a path
CharPositions(path, c) == {i \in 1..Len(path) : path[i] = c}

\* os.path.basename(path)
basename(path) ==
    IF CharPositions(path, "/") = {} THEN path
    ELSE SubSeq(path, (CHOOSE i \in CharPositions(path, "/") :
                          \A j \in CharPositions(path, "/") : j <= i) + 1, Len(path))

\* os.path.join(dirpath, name)
join(dirpath, name) == dirpath \o <<"/">> \o name

\* fits.get_header(path): the header blocks of the file
get_header(path) == (CHOOSE f \in FitsFiles : f.name = basename(path)).blocks

\* sunpy_filetools._detect_filetype(path): the type read from the content of
\* the file, or the name of the exception raised
detect_filetype(path) ==
    IF \E f \in FitsFiles : f.name = basename(path) THEN "fits"
    ELSE (CHOOSE f \in OtherFiles : f.name = basename(path)).filetype

\* fnmatch.fnmatch(name, pat): * matches any run of characters, ? any one
\* character, any other character itself
RECURSIVE fnmatch(_, _)
fnmatch(name, pat) ==
    IF pat = <<>> THEN name = <<>>
    ELSE IF Head(pat) = "*"
    THEN fnmatch(name, Tail(pat)) \/ (name # <<>> /\ fnmatch(Tail(name), pat))
    ELSE /\ name # <<>>
         /\ Head(pat) = "?" \/ Head(pat) = Head(name)
         /\ fnmatch(Tail(name), Tail(pat))

\* a filter that lets every name through
fnmatch_filter_all(names, pat) == names

\* fnmatch.filter(names, pat): the names that match, in their order
RECURSIVE fnmatch_filter(_, _)
fnmatch_filter(names, pat) ==
    IF names = <<>> THEN <<>>
    ELSE (IF fnmatch(Head(names), pat) THEN <<Head(names)>> ELSE <<>>)
         \o fnmatch_filter(Tail(names), pat)

\* the positions of a header that hold one of the keys
KeyPositions(header, keys) == {i \in 1..Len(header) : header[i].key \in keys}

Max(S) == CHOOSE x \in S : \A y \in S : y <= x

\* fits.extract_waveunit(header): the unit named by the header, None if it names none
extract_waveunit(header) ==
    IF KeyPositions(header, {"WAVEUNIT"}) = {} THEN None
    ELSE header[Max(KeyPositions(header, {"WAVEUNIT"}))].value

\* Unit(label) succeeds on these labels and raises ValueError on any other
KnownUnits == {"Angstrom", "nm"}

UnitResolves(label) == label.t = "str" /\ label.s \in KnownUnits

\* unit.to(nm, value, equivalencies.spectral()): the value in nanometres, as a
\* float held in units of 0.1 nm (1 Angstrom = 0.1 nm)
UnitToNm(label, value) ==
    CASE label.s = "Angstrom" -> PyFloat(value.n)
      [] label.s = "nm" -> PyFloat(10 * value.n)

\* parse_time(value): the timestamp a time string denotes
parse_time(value) ==
    CASE value.s = "2002-02-20T11:06:00" -> PyTime(1)
      [] value.s = "2002-02-20T11:06:43" -> PyTime(2)
      [] value.s = "2011-03-19T10:54:00" -> PyTime(3)

\* timestamp2datetime('%Y%m%d%H%M%S', string)
timestamp2datetime(string) ==
    CASE string.s = "20020220110600" -> PyTime(1)
      [] string.s = "20020220110643" -> PyTime(2)
      [] string.s = "20110319105400" -> PyTime(3)

\* str(v)
str(v) ==
    CASE v.t = "str" -> v
      [] v.t = "None" -> PyStr("None")
      [] v.t = "int" -> PyStr(IntText(v.n))
      [] v.t = "bool" -> PyStr(IF v.n = 1 THEN "True" ELSE "False")
      [] v.t = "dict" -> PyStr(v.s)
      [] v.t = "float" -> PyStr(IntText(v.n) \o ".0")   \* of a whole number (size)

\* float(v) on a number
float(v) == PyFloat(v.n)

----------------------------------------------------------------------------
(* Exceptions *)

NoBlock ==
    [time_start |-> None, time_end |-> None, waveunit |-> None, wavemin |-> None,
     wavemax |-> None, source |-> None, provider |-> None, fileid |-> None,
     instrument |-> None, physobs |-> None, size |-> None]

\* kind: the exception class; obj_path, obj_block: the obj of a
\* WaveunitNotFoundError; waveunit: the label of a WaveunitNotConvertibleError
\* or of the ValueError of Unit(label)
NoExc == [kind |-> "none", obj_path |-> <<>>, obj_block |-> NoBlock, waveunit |-> None]

WaveunitNotFoundError_path(path) ==
    [NoExc EXCEPT !.kind = "WaveunitNotFoundError", !.obj_path = path]

WaveunitNotFoundError_block(block) ==
    [NoExc EXCEPT !.kind = "WaveunitNotFoundError", !.obj_block = block]

WaveunitNotConvertibleError(waveunit) ==
    [NoExc EXCEPT !.kind = "WaveunitNotConvertibleError", !.waveunit = waveunit]

ValueError(waveunit) == [NoExc EXCEPT !.kind = "ValueError", !.waveunit = waveunit]

----------------------------------------------------------------------------
(* DatabaseEntry.add_fits_header_entries_from_file *)

HeaderEntriesOf_allstr(header) ==
    [i \in 1..Len(header) |-> FitsHeaderEntry(header[i].key, str(header[i].value))]

\* the header entries of a header: one per key/value pair, in order; the value
\* of the keys 'KEYCOMMENTS' and '' as a string
HeaderEntriesOf(header) ==
    [i \in 1..Len(header) |->
        FitsHeaderEntry(
            header[i].key,
            IF header[i].key \in {"KEYCOMMENTS", ""}
            THEN str(header[i].value) ELSE header[i].value)]

header_waveunit_nodefault(waveunit, default_waveunit) ==
    [raise |-> waveunit = None, waveunit |-> waveunit]

\* the unit of a header: the extracted one, else the default, else the call raises
header_waveunit(waveunit, default_waveunit) ==
    IF waveunit = None
    THEN IF default_waveunit = None
         THEN [raise |-> TRUE, waveunit |-> None]
         ELSE [raise |-> FALSE, waveunit |-> default_waveunit]
    ELSE [raise |-> FALSE, waveunit |-> waveunit]

apply_header_entry_minonly(self, header_entry, unit) ==
    LET key == header_entry.key
        value == header_entry.value
    IN  CASE key = "INSTRUME" -> [self EXCEPT !.instrument = value]
          [] key = "WAVELNTH" -> [self EXCEPT !.wavemin = UnitToNm(unit, value)]
          [] key \in {"DATE-END", "DATE_END"} ->
                [self EXCEPT !.observation_time_end = parse_time(value)]
          [] key \in {"DATE-OBS", "DATE_OBS"} ->
                [self EXCEPT !.observation_time_start = parse_time(value)]
          [] OTHER -> self

\* one round of the loop over self.fits_header_entries
apply_header_entry(self, header_entry, unit) ==
    LET key == header_entry.key
        value == header_entry.value
    IN  CASE key = "INSTRUME" -> [self EXCEPT !.instrument = value]
          [] key = "WAVELNTH" ->
                [self EXCEPT !.wavemin = UnitToNm(unit, value),
                             !.wavemax = UnitToNm(unit, value)]
          [] key \in {"DATE-END", "DATE_END"} ->
                [self EXCEPT !.observation_time_end = parse_time(value)]
          [] key \in {"DATE-OBS", "DATE_OBS"} ->
                [self EXCEPT !.observation_time_start = parse_time(value)]
          [] OTHER -> self

\* the loop over self.fits_header_entries, from position i on
RECURSIVE apply_header_entries(_, _, _)
apply_header_entries(self, i, unit) ==
    IF i > Len(self.fits_header_entries) THEN self
    ELSE apply_header_entries(
            apply_header_entry(self, self.fits_header_entries[i], unit), i + 1, unit)

\* an ingestion that fills the fields from the header entries before it
\* looks for the unit
add_fits_header_entries_from_file_fields_first(self, fits_filepath, default_waveunit) ==
    LET header == get_header(fits_filepath)[1]
        appended == [self EXCEPT !.fits_header_entries = @ \o HeaderEntriesOf(header)]
        found == header_waveunit(extract_waveunit(header), default_waveunit)
        filled == apply_header_entries(appended, 1, PyStr("nm"))
    IN  IF found.raise
        THEN [entry |-> filled, exc |-> WaveunitNotFoundError_path(fits_filepath)]
        ELSE IF ~UnitResolves(found.waveunit)
        THEN [entry |-> filled, exc |-> WaveunitNotConvertibleError(found.waveunit)]
        ELSE [entry |-> apply_header_entries(appended, 1, found.waveunit),
              exc |-> NoExc]

\* self.add_fits_header_entries_from_file(fits_filepath, default_waveunit):
\* the entry as the call leaves it, and the exception it raises, if any
add_fits_header_entries_from_file(self, fits_filepath, default_waveunit) ==
    LET header == get_header(fits_filepath)[1]
        appended == [self EXCEPT !.fits_header_entries = @ \o HeaderEntriesOf(header)]
        found == header_waveunit(extract_waveunit(header), default_waveunit)
    IN  IF found.raise
        THEN [entry |-> appended, exc |-> WaveunitNotFoundError_path(fits_filepath)]
        ELSE IF ~UnitResolves(found.waveunit)
        THEN [entry |-> appended, exc |-> WaveunitNotConvertibleError(found.waveunit)]
        ELSE [entry |-> apply_header_entries(appended, 1, found.waveunit),
              exc |-> NoExc]

\* DatabaseEntry.from_fits_filepath(path, default_waveunit)
from_fits_filepath(path, default_waveunit) ==
    add_fits_header_entries_from_file(NewEntry, path, default_waveunit)

----------------------------------------------------------------------------
(* DatabaseEntry.from_query_result_block *)

str_or_None(v) == IF v # None THEN str(v) ELSE None

\* the converted wavelength of a block: unset if the block has none
block_wave(unit, v) == IF v = None THEN None ELSE UnitToNm(unit, float(v))

\* the entry the call returns (the entry given if it raises), and the
\* exception it raises, if any
from_query_result_block(current, qr_block, default_waveunit) ==
    LET time_start == timestamp2datetime(qr_block.time_start)
        time_end == timestamp2datetime(qr_block.time_end)
        unit == IF qr_block.waveunit = None THEN default_waveunit
                ELSE qr_block.waveunit
    IN  IF qr_block.waveunit = None /\ default_waveunit = None
        THEN [entry |-> current, exc |-> WaveunitNotFoundError_block(qr_block)]
        ELSE IF ~UnitResolves(unit)
        THEN [entry |-> current, exc |-> ValueError(unit)]
        ELSE [entry |->
                 [NewEntry EXCEPT
                     !.source = str_or_None(qr_block.source),
                     !.provider = str_or_None(qr_block.provider),
                     !.physobs = qr_block.physobs,
                     !.fileid = str_or_None(qr_block.fileid),
                     !.observation_time_start = time_start,
                     !.observation_time_end = time_end,
                     !.instrument = str_or_None(qr_block.instrument),
                     !.size = qr_block.size,
                     !.wavemin = block_wave(unit, qr_block.wavemin),
                     !.wavemax = block_wave(unit, qr_block.wavemax)],
              exc |-> NoExc]

----------------------------------------------------------------------------
(* entries_from_dir: a generator.  Its frame holds the arguments, the       *)
(* position of os.walk (dir: the directories listed so far) and the paths   *)
(* of the current directory that fnmatch.filter let through and the inner   *)
(* loop has not reached yet (todo).                                         *)
(* entries_from_query_result: a generator.  Its frame holds the arguments   *)
(* and the position of the loop over qr (block: the blocks taken so far).   *)
(* fn names the generator function the frame belongs to.                    *)

NoGen ==
    [state |-> "none", fn |-> "none", recursive |-> FALSE, pattern |-> <<>>,
     default_waveunit |-> None, dir |-> 0, todo |-> <<>>, qr |-> <<>>, block |-> 0]

NoItem == [entry |-> NewEntry, path |-> <<>>]
NoOut == [out |-> "none", item |-> NoItem, exc |-> NoExc]
NoIO == [listed |-> <<>>, detected |-> <<>>, decoded |-> <<>>, converted |-> <<>>]

\* entries_from_dir(fitsdir, recursive, pattern, default_waveunit): the call
\* makes the generator and runs none of its body
entries_from_dir(recursive, pattern, default_waveunit) ==
    [NoGen EXCEPT !.state = "created", !.fn = "entries_from_dir",
                  !.recursive = recursive,
                  !.pattern = pattern, !.default_waveunit = default_waveunit]

\* the paths of a directory os.walk lists: os.path.join(dirpath, name) per name
filename_paths(d) == [i \in 1..Len(d.filenames) |-> join(d.dirpath, d.filenames[i])]

after_directory_walk_on(g, walk) ==
    IF g.dir < Len(walk) THEN "walk" ELSE "stop"

\* at the end of the outer loop's body: break unless recursive, else os.walk goes
\* on to the next directory, if there is one
after_directory(g, walk) ==
    IF g.dir > 0 /\ ~g.recursive THEN "stop"
    ELSE IF g.dir < Len(walk) THEN "walk" ELSE "stop"

\* the generator runs from where it stands to its next yield, to its end or
\* to an exception
RECURSIVE resume(_, _, _)
resume(g, walk, log) ==
    IF g.todo # <<>>
    THEN LET path == Head(g.todo)
             g1 == [g EXCEPT !.todo = Tail(@)]
             log1 == [log EXCEPT !.detected = Append(@, path)]
             filetype == detect_filetype(path)
         IN  IF filetype \in {"UnrecognizedFileTypeError",
                              "InvalidJPEG2000FileExtension"}
             THEN resume(g1, walk, log1)
             ELSE IF filetype = "fits"
             THEN LET r == from_fits_filepath(path, g.default_waveunit)
                      log2 == [log1 EXCEPT !.decoded = Append(@, path)]
                  IN  IF r.exc.kind # "none"
                      THEN [gen |-> [g1 EXCEPT !.state = "finished"], io |-> log2,
                            res |-> [out |-> "raise", item |-> NoItem, exc |-> r.exc]]
                      ELSE [gen |-> [g1 EXCEPT !.state = "suspended"], io |-> log2,
                            res |-> [out |-> "yield",
                                     item |-> [entry |-> r.entry, path |-> path],
                                     exc |-> NoExc]]
             ELSE resume(g1, walk, log1)
    ELSE IF after_directory(g, walk) = "walk"
    THEN resume([g EXCEPT !.dir = @ + 1,
                          !.todo = fnmatch_filter(
                                       filename_paths(walk[g.dir + 1]), g.pattern)],
                walk,
                [log EXCEPT !.listed = Append(@, walk[g.dir + 1].dirpath)])
    ELSE [gen |-> [g EXCEPT !.state = "finished"], io |-> log,
          res |-> [out |-> "StopIteration", item |-> NoItem, exc |-> NoExc]]

\* entries_from_query_result(qr, default_waveunit): the call makes the
\* generator and runs none of its body
entries_from_query_result(qr, default_waveunit) ==
    [NoGen EXCEPT !.state = "created", !.fn = "entries_from_query_result",
                  !.qr = qr, !.default_waveunit = default_waveunit]

\* the generator over a query result runs from where it stands to its next
\* yield, to its end or to an exception: it takes one block of qr, if there
\* is one left, and converts it
resume_query_result(g, log) ==
    IF g.block < Len(g.qr)
    THEN LET block == g.qr[g.block + 1]
             g1 == [g EXCEPT !.block = @ + 1]
             r == from_query_result_block(NewEntry, block, g.default_waveunit)
             log1 == [log EXCEPT !.converted = Append(@, block)]
         IN  IF r.exc.kind # "none"
             THEN [gen |-> [g1 EXCEPT !.state = "finished"], io |-> log1,
                   res |-> [out |-> "raise", item |-> NoItem, exc |-> r.exc]]
             ELSE [gen |-> [g1 EXCEPT !.state = "suspended"], io |-> log1,
                   res |-> [out |-> "yield",
                            item |-> [entry |-> r.entry, path |-> <<>>],
                            exc |-> NoExc]]
    ELSE [gen |-> [g EXCEPT !.state = "finished"], io |-> log,
          res |-> [out |-> "StopIteration", item |-> NoItem, exc |-> NoExc]]

\* next() on the generator: a finished generator raises StopIteration again
generator_next(g, walk, log) ==
    IF g.state = "finished"
    THEN [gen |-> g, io |-> log,
          res |-> [out |-> "StopIteration", item |-> NoItem, exc |-> NoExc]]
    ELSE IF g.fn = "entries_from_query_result"
    THEN resume_query_result(g, log)
    ELSE resume(g, walk, log)

----------------------------------------------------------------------------
(* display_entries *)

TypeError(message) == [kind |-> "TypeError", message |-> message, table |-> <<>>]

\* '-' * n
RECURSIVE dashes(_)
dashes(n) == IF n = 0 THEN "" ELSE "-" \o dashes(n - 1)

\* ', '.join(names)
RECURSIVE join_comma(_)
join_comma(names) ==
    IF names = <<>> THEN ""
    ELSE IF Len(names) = 1 THEN names[1]
    ELSE names[1] \o ", " \o join_comma(Tail(names))

\* str(tag): the name of the tag
Tag_str(tag) == tag.name

\* a cell that reads 'N/A' for an unset value only
table_cell_unset_only(e, col) ==
    IF col = "starred" THEN (IF bool(e.starred) THEN "Yes" ELSE "No")
    ELSE IF col = "tags"
    THEN IF e.tags = <<>> THEN "N/A"
         ELSE join_comma([i \in 1..Len(e.tags) |-> Tag_str(e.tags[i])])
    ELSE IF e[col] # None THEN str(e[col]).s ELSE "N/A"

\* one cell of the table
table_cell(e, col) ==
    IF col = "starred" THEN (IF bool(e.starred) THEN "Yes" ELSE "No")
    ELSE IF col = "tags"
    THEN LET joined == join_comma([i \in 1..Len(e.tags) |-> Tag_str(e.tags[i])])
         IN  IF joined # "" THEN joined ELSE "N/A"
    ELSE IF bool(e[col]) THEN str(e[col]).s ELSE "N/A"

table_row(e, columns) == [j \in 1..Len(columns) |-> table_cell(e, columns[j])]

display_entries_columns_first(database_entries, columns) ==
    LET data == [i \in 1..Len(database_entries) |->
                    table_row(database_entries[i], columns)]
    IN  IF columns = <<>> THEN TypeError("at least one column must be given")
        ELSE IF data = <<>> THEN TypeError("given iterable is empty")
        ELSE [kind |-> "none", message |-> "",
              table |-> <<columns>>
                        \o <<[j \in 1..Len(columns) |-> dashes(Len(columns[j]))]>>
                        \o data]

\* display_entries(database_entries, columns): the exception raised, or the
\* rows handed to print_table
display_entries(database_entries, columns) ==
    LET data == [i \in 1..Len(database_entries) |->
                    table_row(database_entries[i], columns)]
    IN  IF \E i \in 1..Len(data) : data[i] = <<>>
        THEN TypeError("at least one column must be given")
        ELSE IF data = <<>> THEN TypeError("given iterable is empty")
        ELSE [kind |-> "none", message |-> "",
              table |-> <<columns>>
                        \o <<[j \in 1..Len(columns) |-> dashes(Len(columns[j]))]>>
                        \o data]

----------------------------------------------------------------------------
(* Bounds *)

MaxId == 2          \* ids the persistence layer hands out: 1..MaxId
MaxSets == 2        \* attribute assignments made to the two compared entries
MaxWave == 160      \* compared wavelengths lie in -MaxWave..MaxWave (units of 1e-12)
MaxCalls == 2       \* ingestion calls made one after the other
MaxTopFiles == 2    \* files in the directory scanned
MaxSubFiles == 1    \* files in its subdirectory
MaxRows == 2        \* entries displayed
MaxCols == 2        \* columns displayed

----------------------------------------------------------------------------
(* The states of the parts of the model a specification leaves alone *)

NoCmp == [done |-> FALSE, eq |-> FALSE, ne |-> FALSE]
NoCall == [op |-> "none", path |-> <<>>, block |-> NoBlock, default_waveunit |-> None]

IdleHdrEq ==
    /\ hx = FitsHeaderEntry("", None)
    /\ hy = FitsHeaderEntry("", None)
    /\ hres = NoCmp

IdleEq == a = NewEntry /\ b = NewEntry /\ eqres = NoCmp /\ nset = 0

IdleIngest ==
    /\ entry = NewEntry
    /\ pre = NewEntry
    /\ call = NoCall
    /\ exc = NoExc
    /\ ncalls = 0

IdleDir ==
    /\ fs = <<>>
    /\ gen = NoGen
    /\ yielded = <<>>
    /\ genout = NoOut
    /\ io = NoIO

NoDisplay == [kind |-> "not called", message |-> "", table |-> <<>>]

IdleTable == targs = [database_entries |-> <<>>, columns |-> <<>>] /\ tout = NoDisplay

----------------------------------------------------------------------------
(* Comparing two FitsHeaderEntry objects *)

HeaderKeys == {"INSTRUME", "WAVELNTH"}
HeaderValues == {PyStr("AIA"), PyInt(171)}

InitHdrEq ==
    /\ hx \in {FitsHeaderEntry(k, v) : k \in HeaderKeys, v \in HeaderValues}
    /\ hy \in {FitsHeaderEntry(k, v) : k \in HeaderKeys, v \in HeaderValues}
    /\ hres = NoCmp
    /\ IdleEq
    /\ IdleIngest
    /\ IdleDir
    /\ IdleTable

\* the persistence layer assigns the primary key of a header entry
AssignHeaderId ==
    /\ \E i \in 1..MaxId :
          \/ hx.id = None /\ hx' = [hx EXCEPT !.id = PyInt(i)] /\ hy' = hy
          \/ hy.id = None /\ hy' = [hy EXCEPT !.id = PyInt(i)] /\ hx' = hx
    /\ hres' = NoCmp
    /\ UNCHANGED <<varsEq, varsIngest, varsDir, varsTable>>

\* hx == hy and hx != hy are evaluated
CompareHeaders ==
    /\ ~hres.done
    /\ hres' = [done |-> TRUE,
                eq |-> FitsHeaderEntry_eq(hx, hy),
                ne |-> FitsHeaderEntry_ne(hx, hy)]
    /\ UNCHANGED <<hx, hy, varsEq, varsIngest, varsDir, varsTable>>

NextHdrEq == AssignHeaderId \/ CompareHeaders

SpecHdrEq == InitHdrEq /\ [][NextHdrEq]_vars

----------------------------------------------------------------------------
(* Comparing two DatabaseEntry objects *)

EntryFields ==
    {"id", "source", "provider", "physobs", "fileid", "observation_time_start",
     "observation_time_end", "instrument", "size", "wavemin", "wavemax", "path",
     "download_time", "starred", "fits_header_entries", "tags"}

HeaderLists ==
    LET h1 == FitsHeaderEntry("INSTRUME", PyStr("AIA"))
        h2 == FitsHeaderEntry("WAVELNTH", PyInt(171))
    IN  {<<>>, <<h1>>, <<h1, h2>>, <<h2, h1>>,
         <<[h1 EXCEPT !.id = PyInt(1)]>>, <<[h1 EXCEPT !.id = PyInt(2)]>>}

TagLists ==
    {<<>>, <<Tag("sun")>>, <<Tag("sun"), Tag("flare")>>,
     <<Tag("flare"), Tag("sun")>>}

\* the values an attribute is assigned (floats of wavemin, wavemax in units of 1e-12)
FieldValues(f) ==
    CASE f = "id" -> {None} \cup {PyInt(i) : i \in 1..MaxId}
      [] f = "source" -> {None, PyStr("SOHO"), PyStr("SDO")}
      [] f \in {"provider", "physobs", "fileid", "instrument", "path"} ->
            {None, PyStr("x")}
      [] f \in {"observation_time_start", "observation_time_end", "download_time"} ->
            {None, PyTime(1)}
      [] f = "size" -> {None, PyFloat(0), PyFloat(1)}
      [] f = "wavemin" -> {None, PyFloat(40), PyFloat(49), PyFloat(51)}
      [] f = "wavemax" -> {None, PyFloat(149), PyFloat(150)}
      [] f = "starred" -> {None, PyBool(TRUE), PyBool(FALSE)}
      [] f = "fits_header_entries" -> HeaderLists
      [] f = "tags" -> TagLists

InitEq == IdleEq /\ IdleHdrEq /\ IdleIngest /\ IdleDir /\ IdleTable

\* setattr(a, f, v) or setattr(b, f, v)
SetAttr ==
    /\ nset < MaxSets
    /\ \E f \in EntryFields : \E v \in FieldValues(f) :
          \/ a' = [a EXCEPT ![f] = v] /\ b' = b
          \/ b' = [b EXCEPT ![f] = v] /\ a' = a
    /\ nset' = nset + 1
    /\ eqres' = NoCmp
    /\ UNCHANGED <<varsHdrEq, varsIngest, varsDir, varsTable>>

\* a == b and a != b are evaluated
CompareEntries ==
    /\ ~eqres.done
    /\ eqres' = [done |-> TRUE,
                 eq |-> DatabaseEntry_eq(a, b),
                 ne |-> DatabaseEntry_ne(a, b)]
    /\ UNCHANGED <<a, b, nset, varsHdrEq, varsIngest, varsDir, varsTable>>

NextEq == SetAttr \/ CompareEntries

SpecEq == InitEq /\ [][NextEq]_vars

----------------------------------------------------------------------------
(* Comparing two entries that differ in wavemin only *)

InitWave ==
    /\ \E x \in -MaxWave..MaxWave, y \in -MaxWave..MaxWave :
          /\ a = [NewEntry EXCEPT !.wavemin = PyFloat(x)]
          /\ b = [NewEntry EXCEPT !.wavemin = PyFloat(y)]
    /\ eqres = NoCmp
    /\ nset = 0
    /\ IdleHdrEq
    /\ IdleIngest
    /\ IdleDir
    /\ IdleTable

NextWave == CompareEntries

SpecWave == InitWave /\ [][NextWave]_vars

----------------------------------------------------------------------------
(* Ingestion: entries made from FITS files and from query result blocks *)

DefaultWaveunits == {None, PyStr("nm"), PyStr("nonsense")}

\* the blocks of a VSO query result
QueryResultBlocks ==
    {[NoBlock EXCEPT
         !.time_start = PyStr("20020220110600"),
         !.time_end = PyStr("20020220110643"),
         !.waveunit = u, !.wavemin = lo, !.wavemax = hi,
         !.source = PyStr("SOHO"), !.provider = PyStr("SDAC"),
         !.fileid = fid, !.instrument = PyStr("EIT"), !.size = PyFloat(2059)] :
       u \in {None, PyStr("Angstrom"), PyStr("nonsense")},
       lo \in {None, PyInt(171)}, hi \in {None, PyInt(175)},
       fid \in {None, PyInt(7)}}

Init == IdleIngest /\ IdleEq /\ IdleHdrEq /\ IdleDir /\ IdleTable

\* entry = DatabaseEntry.from_fits_filepath(path, default_waveunit); on an
\* exception, entry is the entry the method was filling
FromFitsFilepath ==
    /\ ncalls < MaxCalls
    /\ \E path \in FitsPaths, d \in DefaultWaveunits :
          LET r == from_fits_filepath(path, d)
          IN  /\ entry' = r.entry
              /\ exc' = r.exc
              /\ pre' = NewEntry
              /\ call' = [NoCall EXCEPT !.op = "from_fits_filepath",
                                        !.path = path, !.default_waveunit = d]
    /\ ncalls' = ncalls + 1
    /\ UNCHANGED <<varsEq, varsHdrEq, varsDir, varsTable>>

\* entry.add_fits_header_entries_from_file(path, default_waveunit)
AddFitsHeaderEntriesFromFile ==
    /\ ncalls < MaxCalls
    /\ \E path \in FitsPaths, d \in DefaultWaveunits :
          LET r == add_fits_header_entries_from_file(entry, path, d)
          IN  /\ entry' = r.entry
              /\ exc' = r.exc
              /\ pre' = entry
              /\ call' = [NoCall EXCEPT !.op = "add_fits_header_entries_from_file",
                                        !.path = path, !.default_waveunit = d]
    /\ ncalls' = ncalls + 1
    /\ UNCHANGED <<varsEq, varsHdrEq, varsDir, varsTable>>

\* entry = DatabaseEntry.from_query_result_block(block, default_waveunit); on
\* an exception nothing is assigned
FromQueryResultBlock ==
    /\ ncalls < MaxCalls
    /\ \E block \in QueryResultBlocks, d \in DefaultWaveunits :
          LET r == from_query_result_block(entry, block, d)
          IN  /\ entry' = r.entry
              /\ exc' = r.exc
              /\ pre' = entry
              /\ call' = [NoCall EXCEPT !.op = "from_query_result_block",
                                        !.block = block, !.default_waveunit = d]
    /\ ncalls' = ncalls + 1
    /\ UNCHANGED <<varsEq, varsHdrEq, varsDir, varsTable>>

Next == FromFitsFilepath \/ AddFitsHeaderEntriesFromFile \/ FromQueryResultBlock

Spec == Init /\ [][Next]_vars

----------------------------------------------------------------------------
(* The directory scan *)

TopDir == <<"t">>
SubDir == <<"t", "/", "s">>

\* the names a directory may hold
DirNames ==
    {<<"a", ".", "f">>, <<"e", ".", "f">>,
     <<"j", ".", "f">>, <<"x", ".", "f">>, <<"b", ".", "f">>}

\* the listings of a directory of at most n files: its names in any order
Listings(n) ==
    {l \in UNION {[1..k -> DirNames] : k \in 0..n} :
        \A i \in 1..Len(l) : \A j \in 1..Len(l) : i # j => l[i] # l[j]}

Patterns == {<<"*">>, <<"*", "a", ".", "f">>, <<"t", "/", "?", ".", "f">>}

\* os.walk(fitsdir) top down: the directory, then its subdirectory
InitDir ==
    /\ \E top \in Listings(MaxTopFiles), sub \in Listings(MaxSubFiles) :
          fs = <<[dirpath |-> TopDir, filenames |-> top],
                 [dirpath |-> SubDir, filenames |-> sub]>>
    /\ gen = NoGen
    /\ yielded = <<>>
    /\ genout = NoOut
    /\ io = NoIO
    /\ IdleHdrEq
    /\ IdleEq
    /\ IdleIngest
    /\ IdleTable

\* gen = entries_from_dir(fitsdir, recursive, pattern, default_waveunit)
CallEntriesFromDir ==
    /\ gen.state = "none"
    /\ \E recursive \in BOOLEAN, pattern \in Patterns,
          d \in {None, PyStr("nm")} :
          gen' = entries_from_dir(recursive, pattern, d)
    /\ UNCHANGED <<fs, yielded, genout, io, varsHdrEq, varsEq, varsIngest, varsTable>>

\* the query results handed to entries_from_query_result: blocks with a unit,
\* without one, and with one that is no unit
QueryResults ==
    LET block(u, lo) ==
            [NoBlock EXCEPT
                !.time_start = PyStr("20020220110600"),
                !.time_end = PyStr("20020220110643"),
                !.waveunit = u, !.wavemin = lo, !.wavemax = PyInt(175),
                !.source = PyStr("SOHO"), !.provider = PyStr("SDAC"),
                !.fileid = PyInt(7), !.instrument = PyStr("EIT"),
                !.size = PyFloat(2059)]
        good == block(PyStr("Angstrom"), PyInt(171))
        bare == block(None, PyInt(171))
        odd == block(PyStr("nonsense"), None)
    IN  {<<>>, <<good>>, <<good, bare, good>>, <<bare, odd>>}

\* gen = entries_from_query_result(qr, default_waveunit)
CallEntriesFromQueryResult ==
    /\ gen.state = "none"
    /\ \E qr \in QueryResults, d \in {None, PyStr("nm")} :
          gen' = entries_from_query_result(qr, d)
    /\ UNCHANGED <<fs, yielded, genout, io, varsHdrEq, varsEq, varsIngest, varsTable>>

\* next(gen) on a generator made by entries_from_query_result
AdvanceEntriesFromQueryResult ==
    /\ gen.fn = "entries_from_query_result"
    /\ LET r == generator_next(gen, fs, io)
       IN  /\ gen' = r.gen
           /\ io' = r.io
           /\ genout' = r.res
           /\ yielded' = IF r.res.out = "yield" THEN Append(yielded, r.res.item)
                         ELSE yielded
    /\ UNCHANGED <<fs, varsHdrEq, varsEq, varsIngest, varsTable>>

\* next(gen) on a generator made by entries_from_dir
AdvanceEntriesFromDir ==
    /\ gen.fn = "entries_from_dir"
    /\ LET r == generator_next(gen, fs, io)
       IN  /\ gen' = r.gen
           /\ io' = r.io
           /\ genout' = r.res
           /\ yielded' = IF r.res.out = "yield" THEN Append(yielded, r.res.item)
                         ELSE yielded
    /\ UNCHANGED <<fs, varsHdrEq, varsEq, varsIngest, varsTable>>

NextDir ==
    \/ CallEntriesFromDir
    \/ AdvanceEntriesFromDir
    \/ CallEntriesFromQueryResult
    \/ AdvanceEntriesFromQueryResult

SpecDir == InitDir /\ [][NextDir]_vars

----------------------------------------------------------------------------
(* The display *)

DisplayedEntries ==
    {NewEntry,
     [NewEntry EXCEPT !.id = PyInt(1), !.source = PyStr("SOHO"),
                      !.size = PyFloat(0), !.starred = PyBool(TRUE),
                      !.tags = <<Tag("sun"), Tag("flare")>>],
     [NewEntry EXCEPT !.id = PyInt(12), !.source = PyStr(""),
                      !.size = PyFloat(2059), !.starred = PyBool(FALSE),
                      !.tags = <<Tag("flare")>>],
     [NewEntry EXCEPT !.id = PyInt(2), !.tags = <<Tag("")>>]}

Columns == {"id", "source", "size", "starred", "tags"}

InitTable == IdleTable /\ IdleHdrEq /\ IdleEq /\ IdleIngest /\ IdleDir

\* display_entries(database_entries, columns)
DisplayEntries ==
    /\ tout.kind = "not called"
    /\ \E es \in UNION {[1..k -> DisplayedEntries] : k \in 0..MaxRows},
          cs \in UNION {[1..k -> Columns] : k \in 0..MaxCols} :
          /\ targs' = [database_entries |-> es, columns |-> cs]
          /\ tout' = display_entries(es, cs)
    /\ UNCHANGED <<varsHdrEq, varsEq, varsIngest, varsDir>>

NextTable == DisplayEntries

SpecTable == InitTable /\ [][NextTable]_vars

----------------------------------------------------------------------------
(* Properties of the equality operators *)

Abs(x) == IF x < 0 THEN -x ELSE x

\* C3: x == y on two header entries holds exactly when the keys are equal, the
\* values are equal and the ids are equal or one of them is unset; x != y is
\* the negation of x == y.
C3_HeaderEntryEquality ==
    hres.done =>
        /\ hres.eq <=> /\ hx.key = hy.key
                       /\ hx.value = hy.value
                       /\ (hx.id = hy.id \/ hx.id = None \/ hy.id = None)
        /\ hres.ne <=> ~hres.eq

\* two entries, one persisted and one not, compared equal
C3_Witness ==
    /\ hres.done /\ hres.eq /\ ~hres.ne
    /\ hx.id # None /\ hy.id = None

\* the multiple of 1e-10 a wavelength rounds to, stated by its distance: the
\* nearest one and, of two equally near, the one farther from zero
Nearest(x) ==
    CHOOSE m \in {k * RoundUnit : k \in -(Abs(x) + 1)..(Abs(x) + 1)} :
        /\ 2 * Abs(x - m) <= RoundUnit
        /\ 2 * Abs(x - m) = RoundUnit => Abs(m) > Abs(x)

WaveMatch(v, w) ==
    \/ v = None /\ w = None
    \/ v # None /\ w # None /\ Nearest(v.n) = Nearest(w.n)

PlainFields ==
    {"source", "provider", "physobs", "fileid", "observation_time_start",
     "observation_time_end", "instrument", "size", "path", "download_time"}

\* what C1 states of every field but tags
MatchButTags(x, y) ==
    /\ \A f \in PlainFields : x[f] = y[f]
    /\ WaveMatch(x.wavemin, y.wavemin)
    /\ WaveMatch(x.wavemax, y.wavemax)
    /\ (x.starred = PyBool(TRUE)) <=> (y.starred = PyBool(TRUE))
    /\ Len(x.fits_header_entries) = Len(y.fits_header_entries)
    /\ \A i \in 1..Len(x.fits_header_entries) :
          LET h == x.fits_header_entries[i]
              k == y.fits_header_entries[i]
          IN  /\ h.key = k.key
              /\ h.value = k.value
              /\ (h.id = k.id \/ h.id = None \/ k.id = None)
    /\ (x.id = y.id \/ x.id = None \/ y.id = None)

TagNames(ts) == {ts[i].name : i \in 1..Len(ts)}

\* C1 as stated: a == b holds if and only if the plain fields are equal, the
\* wavelengths match after rounding, starred matches as a boolean, the header
\* entries match in order, the ids are equal or one is unset, and the tags
\* match as sets, whatever their order.
C1_EqualityTagsAsSets ==
    eqres.done =>
        (eqres.eq <=> MatchButTags(a, b) /\ TagNames(a.tags) = TagNames(b.tags))

\* C1 as amended: the same, but the tags match as lists: the same number of
\* tags and the same name at every position.
C1_EqualityTagsInOrder ==
    eqres.done =>
        (eqres.eq <=> /\ MatchButTags(a, b)
                      /\ Len(a.tags) = Len(b.tags)
                      /\ \A i \in 1..Len(a.tags) : a.tags[i].name = b.tags[i].name)

\* two entries found equal although one has an id and the other has none
C1_Witness ==
    /\ eqres.done /\ eqres.eq
    /\ a.id = None /\ b.id # None

\* C2 as stated: of two entries that differ in wavemin only, those less than
\* 1e-11 apart are equal and those more than 1e-10 apart are unequal.
C2_CloseEqualFarUnequal ==
    eqres.done =>
        LET d == Abs(a.wavemin.n - b.wavemin.n)
        IN  /\ 10 * d < RoundUnit => eqres.eq
            /\ d > RoundUnit => ~eqres.eq

\* a rounding boundary (an odd multiple of 0.5e-10) lies between x and y: a
\* value on the boundary rounds away from zero
Separated(x, y) ==
    LET lo == IF x < y THEN x ELSE y
        hi == IF x < y THEN y ELSE x
    IN  \E k \in lo..hi :
           /\ 2 * k % RoundUnit = 0
           /\ k % RoundUnit # 0
           /\ IF k > 0 THEN lo < k ELSE k < hi

\* C2 as amended: two entries that differ in wavemin only are equal exactly
\* when no rounding boundary of the 10th decimal digit separates the two
\* values; those more than 1e-10 apart are always unequal, those less than
\* 1e-11 apart are equal unless a boundary separates them.
C2_EqualUnlessSeparated ==
    eqres.done =>
        LET x == a.wavemin.n
            y == b.wavemin.n
        IN  /\ eqres.eq <=> ~Separated(x, y)
            /\ Abs(x - y) > RoundUnit => ~eqres.eq
            /\ 10 * Abs(x - y) < RoundUnit /\ ~Separated(x, y) => eqres.eq

\* two different wavelengths less than 1e-11 apart compared equal
C2_Witness ==
    /\ eqres.done /\ eqres.eq
    /\ a.wavemin.n # b.wavemin.n
    /\ 10 * Abs(a.wavemin.n - b.wavemin.n) < RoundUnit

----------------------------------------------------------------------------
(* Properties of the ingestion *)

HeaderCall == call.op \in {"from_fits_filepath", "add_fits_header_entries_from_file"}
BlockCall == call.op = "from_query_result_block"

\* the header the last call read: the first block of the file
CallHeader == get_header(call.path)[1]

HasKey(header, keys) == \E i \in 1..Len(header) : header[i].key \in keys

\* the value of the last pair of the header with one of the keys
LastValue(header, keys) ==
    header[CHOOSE i \in 1..Len(header) :
              /\ header[i].key \in keys
              /\ \A j \in (i + 1)..Len(header) : header[j].key \notin keys].value

\* the unit label the last call had to resolve: the one of the source, else the default
CallLabel ==
    IF HeaderCall
    THEN IF extract_waveunit(CallHeader) # None THEN extract_waveunit(CallHeader)
         ELSE call.default_waveunit
    ELSE IF call.block.waveunit # None THEN call.block.waveunit
         ELSE call.default_waveunit

\* C4: ingesting a header with a WAVELNTH value and no extractable unit fails
\* with WaveunitNotFoundError carrying the path when no default unit is given;
\* with a default unit it does not fail so, and the wavelength is converted
\* with the default unit.
C4_NoUnitNoDefaultFails ==
    HeaderCall /\ HasKey(CallHeader, {"WAVELNTH"})
               /\ extract_waveunit(CallHeader) = None =>
        /\ call.default_waveunit = None =>
              /\ exc.kind = "WaveunitNotFoundError"
              /\ exc.obj_path = call.path
        /\ call.default_waveunit # None =>
              /\ exc.kind # "WaveunitNotFoundError"
              /\ exc.kind = "none" =>
                    entry.wavemin = UnitToNm(call.default_waveunit,
                                             LastValue(CallHeader, {"WAVELNTH"}))

\* the file with WAVELNTH = 195 and no unit, ingested without a default
C4_Witness ==
    /\ HeaderCall /\ call.path = <<"e", ".", "f">> /\ call.default_waveunit = None
    /\ exc.kind = "WaveunitNotFoundError"
    /\ exc.obj_path = <<"e", ".", "f">>

\* C5: a source without a wavelength value (a header without WAVELNTH, a block
\* with neither wavemin nor wavemax) never fails with WaveunitNotFoundError,
\* whatever the unit and the default, and leaves wavemin and wavemax unset.
C5_NotFoundOnlyWithWavelength ==
    /\ HeaderCall /\ ~HasKey(CallHeader, {"WAVELNTH"}) =>
          /\ exc.kind # "WaveunitNotFoundError"
          /\ pre = NewEntry /\ exc.kind = "none" =>
                entry.wavemin = None /\ entry.wavemax = None
    /\ BlockCall /\ call.block.wavemin = None /\ call.block.wavemax = None =>
          /\ exc.kind # "WaveunitNotFoundError"
          /\ exc.kind = "none" => entry.wavemin = None /\ entry.wavemax = None

\* C6: in both pathways a unit label that is found, or given as default, and
\* cannot be resolved makes the call fail with WaveunitNotConvertibleError
\* carrying the label.
C6_UnresolvableLabelNotConvertible ==
    (HeaderCall \/ BlockCall) /\ CallLabel # None /\ ~UnitResolves(CallLabel) =>
        /\ exc.kind = "WaveunitNotConvertibleError"
        /\ exc.waveunit = CallLabel

\* C7: a header ingestion appends one header entry per key/value pair of the
\* first header block, in order, after the entries the Entry had, which stay
\* as they were; the values of the keys 'KEYCOMMENTS' and '' become strings,
\* every other value is kept as it is.
C7_HeaderEntriesAppended ==
    HeaderCall =>
        LET old == pre.fits_header_entries
            new == entry.fits_header_entries
        IN  /\ Len(new) = Len(old) + Len(CallHeader)
            /\ \A i \in 1..Len(old) : new[i] = old[i]
            /\ \A j \in 1..Len(CallHeader) :
                  LET h == new[Len(old) + j]
                      kv == CallHeader[j]
                  IN  /\ h.key = kv.key
                      /\ h.id = None
                      /\ IF kv.key \in {"KEYCOMMENTS", ""}
                         THEN h.value.t = "str" /\ h.value = str(kv.value)
                         ELSE h.value = kv.value

\* a second ingestion, of the file whose header has the keys '' and 'KEYCOMMENTS'
C7_Witness ==
    /\ call.op = "add_fits_header_entries_from_file"
    /\ call.path = <<"e", ".", "f">>
    /\ Len(pre.fits_header_entries) > 0
    /\ Len(entry.fits_header_entries) = Len(pre.fits_header_entries) + 4
    /\ entry.fits_header_entries[Len(pre.fits_header_entries) + 1].value = PyStr("0")

\* C8: after a successful header ingestion into a fresh Entry, wavemin and
\* wavemax are both unset if the header has no WAVELNTH, and else both the
\* WAVELNTH value in nanometres by the unit of the header or the default
\* (WAVELNTH 171 in Angstrom: 17.1 nm); instrument and the observation times
\* are those of INSTRUME, DATE-OBS or DATE_OBS, DATE-END or DATE_END, the last
\* such key of the header deciding.
C8_FieldsFromHeader ==
    HeaderCall /\ pre = NewEntry /\ exc.kind = "none" =>
        /\ IF HasKey(CallHeader, {"WAVELNTH"})
           THEN /\ entry.wavemin =
                      UnitToNm(CallLabel, LastValue(CallHeader, {"WAVELNTH"}))
                /\ entry.wavemax = entry.wavemin
           ELSE entry.wavemin = None /\ entry.wavemax = None
        /\ call.path = <<"a", ".", "f">> => entry.wavemin = PyFloat(171)
        /\ entry.instrument =
              IF HasKey(CallHeader, {"INSTRUME"})
              THEN LastValue(CallHeader, {"INSTRUME"}) ELSE None
        /\ entry.observation_time_start =
              IF HasKey(CallHeader, {"DATE-OBS", "DATE_OBS"})
              THEN parse_time(LastValue(CallHeader, {"DATE-OBS", "DATE_OBS"}))
              ELSE None
        /\ entry.observation_time_end =
              IF HasKey(CallHeader, {"DATE-END", "DATE_END"})
              THEN parse_time(LastValue(CallHeader, {"DATE-END", "DATE_END"}))
              ELSE None

\* the file with both spellings of both dates: the later spelling decides
C8_Witness ==
    /\ call.op = "from_fits_filepath" /\ call.path = <<"d", ".", "f">>
    /\ exc.kind = "none"
    /\ entry.wavemin = PyFloat(170) /\ entry.wavemax = PyFloat(170)
    /\ entry.observation_time_start = PyTime(1)
    /\ entry.observation_time_end = PyTime(3)

----------------------------------------------------------------------------
(* Properties of the directory scan *)

\* the generator is one made by entries_from_dir
DirScan == gen.fn = "entries_from_dir"

\* the directories the scan is to consider: the top one, and the others if recursive
ScannedDirs == IF gen.recursive THEN fs ELSE <<fs[1]>>

\* the paths of the files of the directories from the i-th on, in traversal order
RECURSIVE PathsFrom(_, _)
PathsFrom(dirs, i) ==
    IF i > Len(dirs) THEN <<>>
    ELSE [k \in 1..Len(dirs[i].filenames) |->
             dirs[i].dirpath \o <<"/">> \o dirs[i].filenames[k]]
         \o PathsFrom(dirs, i + 1)

\* what each pattern of Patterns matches, said without the matcher
Matches(path, pattern) ==
    CASE pattern = <<"*">> -> TRUE
      [] pattern = <<"*", "a", ".", "f">> ->
            /\ Len(path) >= 3
            /\ path[Len(path) - 2] = "a"
            /\ path[Len(path) - 1] = "." /\ path[Len(path)] = "f"
      [] pattern = <<"t", "/", "?", ".", "f">> ->
            /\ Len(path) = 5
            /\ path[1] = "t" /\ path[2] = "/" /\ path[4] = "." /\ path[5] = "f"

RECURSIVE Keep(_, _)
Keep(paths, i) ==
    IF i > Len(paths) THEN <<>>
    ELSE (IF Matches(paths[i], gen.pattern) /\ detect_filetype(paths[i]) = "fits"
          THEN <<paths[i]>> ELSE <<>>) \o Keep(paths, i + 1)

\* the matching FITS files of the directories considered, in traversal order
ExpectedPaths == Keep(PathsFrom(ScannedDirs, 1), 1)

YieldedPaths == [i \in 1..Len(yielded) |-> yielded[i].path]

IngestionFails(path) == from_fits_filepath(path, gen.default_waveunit).exc.kind # "none"

\* the expected paths before the first one whose ingestion fails
ExpectedUntilFailure ==
    LET bad == {i \in 1..Len(ExpectedPaths) : IngestionFails(ExpectedPaths[i])}
    IN  IF bad = {} THEN ExpectedPaths
        ELSE SubSeq(ExpectedPaths, 1, (CHOOSE i \in bad : \A j \in bad : i <= j) - 1)

\* C9 as stated: the finished scan has yielded exactly one pair for each file
\* that matches the pattern and is classified as FITS, in traversal order,
\* and nothing else; with recursive false only the top directory counts.
C9_YieldsEveryMatchingFits ==
    DirScan /\ gen.state = "finished" =>
        /\ YieldedPaths = ExpectedPaths
        /\ \A i \in 1..Len(yielded) :
              yielded[i].entry.fits_header_entries =
                  HeaderEntriesOf(get_header(yielded[i].path)[1])

\* C9 as amended: the scan yields, in traversal order, one pair for each
\* matching FITS file up to the first one whose header ingestion fails; that
\* error leaves the generator and ends the sequence, so the files after it
\* are not yielded.  Without such a file the finished scan has yielded every
\* matching FITS file.
C9_YieldsUntilIngestionFails ==
    DirScan /\ gen.state # "none" =>
        /\ Len(yielded) <= Len(ExpectedUntilFailure)
        /\ YieldedPaths = SubSeq(ExpectedUntilFailure, 1, Len(yielded))
        /\ \A i \in 1..Len(yielded) :
              yielded[i].entry.fits_header_entries =
                  HeaderEntriesOf(get_header(yielded[i].path)[1])
        /\ gen.state = "finished" => YieldedPaths = ExpectedUntilFailure
        /\ genout.out = "raise" =>
              /\ gen.state = "finished"
              /\ ExpectedUntilFailure # ExpectedPaths
              /\ genout.exc.kind \in {"WaveunitNotFoundError",
                                      "WaveunitNotConvertibleError"}
              /\ genout.exc.kind = "WaveunitNotFoundError" =>
                    genout.exc.obj_path = ExpectedPaths[Len(yielded) + 1]
        /\ gen.state = "finished" /\ ExpectedUntilFailure = ExpectedPaths =>
              genout.out = "StopIteration"

\* a recursive scan of a directory with an unrecognized file and a FITS file and
\* of its subdirectory with a FITS file ended with two pairs
C9_Witness ==
    /\ DirScan /\ gen.state = "finished" /\ gen.recursive
    /\ fs[1].filenames = <<<<"x", ".", "f">>, <<"a", ".", "f">>>>
    /\ fs[2].filenames = <<<<"a", ".", "f">>>>
    /\ YieldedPaths = <<<<"t", "/", "a", ".", "f">>,
                        <<"t", "/", "s", "/", "a", ".", "f">>>>

----------------------------------------------------------------------------
(* Properties of the display *)

DisplayCalled == tout.kind # "not called"

\* the two failures of the display: both are TypeError, told apart by the message
EmptyColumnsError ==
    tout.kind = "TypeError" /\ tout.message = "at least one column must be given"
EmptyEntriesError ==
    tout.kind = "TypeError" /\ tout.message = "given iterable is empty"

\* C10 as stated: the display fails with EmptyColumnsError whenever columns is
\* empty, with EmptyEntriesError when entries is empty and columns is not, and
\* with neither when both are non-empty; the two failures differ.
C10_EmptyColumnsFirst ==
    DisplayCalled =>
        /\ targs.columns = <<>> => EmptyColumnsError
        /\ targs.database_entries = <<>> /\ targs.columns # <<>> => EmptyEntriesError
        /\ targs.database_entries # <<>> /\ targs.columns # <<>> => tout.kind = "none"
        /\ ~(EmptyColumnsError /\ EmptyEntriesError)

\* C10 as amended: the display fails with EmptyEntriesError whenever entries is
\* empty (also when columns is empty too), with EmptyColumnsError when columns
\* is empty and entries is not, and with neither when both are non-empty; the
\* two failures differ (in their message).
C10_EmptyEntriesFirst ==
    DisplayCalled =>
        /\ targs.database_entries = <<>> => EmptyEntriesError
        /\ targs.columns = <<>> /\ targs.database_entries # <<>> => EmptyColumnsError
        /\ targs.database_entries # <<>> /\ targs.columns # <<>> => tout.kind = "none"
        /\ ~(EmptyColumnsError /\ EmptyEntriesError)

\* the display of no entries with no columns
C10_Witness ==
    /\ DisplayCalled
    /\ targs.database_entries = <<>> /\ targs.columns = <<>>
    /\ EmptyEntriesError

\* what the table shows of the values of DisplayedEntries that are not falsy
Shown(v) ==
    CASE v = PyInt(1) -> "1"
      [] v = PyInt(2) -> "2"
      [] v = PyInt(12) -> "12"
      [] v = PyStr("SOHO") -> "SOHO"
      [] v = PyFloat(2059) -> "2059.0"

Falsy == {None, PyInt(0), PyFloat(0), PyStr(""), PyBool(FALSE)}

\* the names of the tags ts (at least one), each but the first after ", "
RECURSIVE NamesJoined(_)
NamesJoined(ts) ==
    IF Len(ts) = 1 THEN ts[1].name
    ELSE NamesJoined(SubSeq(ts, 1, Len(ts) - 1)) \o ", " \o ts[Len(ts)].name

\* the cells of the columns 'starred' and of the plain columns, as C11 has them
StarredCell(e) == IF e.starred = PyBool(TRUE) THEN "Yes" ELSE "No"
PlainCell(e, col) == IF e[col] \in Falsy THEN "N/A" ELSE Shown(e[col])

\* the table has a header row, a ruler row and one row per entry in entry
\* order, each of one cell per column in column order
TableShape ==
    /\ Len(tout.table) = Len(targs.database_entries) + 2
    /\ tout.table[1] = targs.columns
    /\ \A i \in 1..Len(tout.table) : Len(tout.table[i]) = Len(targs.columns)
    /\ \A j \in 1..Len(targs.columns) :
          /\ Len(tout.table[2][j]) = Len(targs.columns[j])
          /\ tout.table[2][j] = dashes(Len(targs.columns[j]))
          /\ tout.table[2][j] \in {"--", "----", "------", "-------"}

\* the cell of entry i in column j follows the rule of its column
CellsAsRendered(TagsCell(_)) ==
    \A i \in 1..Len(targs.database_entries), j \in 1..Len(targs.columns) :
        LET e == targs.database_entries[i]
            col == targs.columns[j]
            cell == tout.table[i + 2][j]
        IN  /\ col = "starred" => cell = StarredCell(e)
            /\ col = "tags" => cell = TagsCell(e)
            /\ col \notin {"starred", "tags"} => cell = PlainCell(e, col)

TagsCellNoTags(e) == IF e.tags = <<>> THEN "N/A" ELSE NamesJoined(e.tags)
TagsCellNoText(e) ==
    IF e.tags = <<>> \/ NamesJoined(e.tags) = "" THEN "N/A" ELSE NamesJoined(e.tags)

\* C11 as stated: a table that is rendered has a header row, a ruler row of
\* dashes of each column name's length and one row per entry in entry order,
\* each of one cell per column in column order; 'starred' reads "Yes" iff
\* starred is true and "No" otherwise (unset included); 'tags' reads the tag
\* names joined by ", " in order, or "N/A" when there are no tags; any other
\* column reads str(value), or "N/A" when the value is unset or falsy.
C11_TagsNAWhenNoTags ==
    tout.kind = "none" => TableShape /\ CellsAsRendered(TagsCellNoTags)

\* C11 as amended: the same, but 'tags' reads "N/A" whenever the joined names
\* are the empty text: when there are no tags, and also when the only tag has
\* the empty name.
C11_TagsNAWhenNoText ==
    tout.kind = "none" => TableShape /\ CellsAsRendered(TagsCellNoText)

\* a table of two entries and two columns showing a falsy size as "N/A" and
\* two tags joined
C11_Witness ==
    /\ tout.kind = "none"
    /\ Len(targs.database_entries) = 2
    /\ targs.columns = <<"size", "tags">>
    /\ targs.database_entries[1].size = PyFloat(0)
    /\ targs.database_entries[2].tags = <<Tag("")>>
    /\ tout.table = <<<<"size", "tags">>, <<"----", "----">>,
                      <<"N/A", "sun, flare">>, <<"N/A", "N/A">>>>

----------------------------------------------------------------------------
(* The Entry after a header ingestion that failed *)

WaveunitFailure == exc.kind \in {"WaveunitNotFoundError", "WaveunitNotConvertibleError"}

\* the fields of an Entry other than its header entries
FieldsButHeaderEntries ==
    {"id", "instrument", "wavemin", "wavemax", "observation_time_start",
     "observation_time_end", "source", "provider", "physobs", "fileid", "size",
     "path", "download_time", "starred", "tags"}

\* C12: when a header ingestion fails with WaveunitNotFoundError or
\* WaveunitNotConvertibleError, one header entry per key/value pair of the
\* header has been appended after the entries the Entry had, and every other
\* field of the Entry has the value it had before the call.
C12_FailureKeepsOtherFields ==
    HeaderCall /\ WaveunitFailure =>
        /\ Len(entry.fits_header_entries) =
              Len(pre.fits_header_entries) + Len(CallHeader)
        /\ \A i \in 1..Len(pre.fits_header_entries) :
              entry.fits_header_entries[i] = pre.fits_header_entries[i]
        /\ \A j \in 1..Len(CallHeader) :
              entry.fits_header_entries[Len(pre.fits_header_entries) + j].key =
                  CallHeader[j].key
        /\ \A f \in FieldsButHeaderEntries : entry[f] = pre[f]

\* an Entry filled from one file takes the header of a file whose INSTRUME and
\* WAVELNTH differ and whose unit is missing or unknown: the ingestion fails,
\* the entries are appended, instrument and wavemin stay
C12_Witness ==
    /\ call.op = "add_fits_header_entries_from_file"
    /\ WaveunitFailure
    /\ pre.instrument = PyStr("AIA") /\ pre.wavemin # None
    /\ HasKey(CallHeader, {"INSTRUME"}) /\ HasKey(CallHeader, {"WAVELNTH"})
    /\ LastValue(CallHeader, {"INSTRUME"}) # pre.instrument
    /\ Len(entry.fits_header_entries) > Len(pre.fits_header_entries)
    /\ entry.instrument = PyStr("AIA") /\ entry.wavemin = pre.wavemin

----------------------------------------------------------------------------
(* Laziness of the two generators *)

QueryScan == gen.fn = "entries_from_query_result"

\* the entries of a sequence after its first n
After(s, n) == SubSeq(s, n + 1, Len(s))

IsPrefix(s, t) == Len(s) <= Len(t) /\ SubSeq(t, 1, Len(s)) = s

\* the paths of the first k directories of the walk that match the pattern,
\* in traversal order
MatchingPaths(k) ==
    SelectSeq(PathsFrom(SubSeq(fs, 1, k), 1), LAMBDA p : Matches(p, gen.pattern))

\* the call of either function makes the generator and does nothing else: no
\* directory is listed, no path classified, no file decoded, no block converted
LazyCall ==
    gen.state = "none" /\ gen'.state # "none" =>
        /\ gen'.state = "created"
        /\ io = NoIO /\ io' = NoIO
        /\ yielded' = yielded /\ genout' = genout

\* an advance of a directory scan that is not finished: only paths that match
\* the pattern are classified or decoded; the paths are classified in
\* traversal order, none twice; every path classified but the last is no FITS
\* file; at most one file is decoded, the one the advance yields or fails on;
\* a directory is listed only once the matching paths of the directories
\* before it are classified, and the item yielded lies in the last directory
\* listed
LazyAdvanceDir ==
    DirScan /\ gen.state \in {"created", "suspended"} =>
        LET det == After(io'.detected, Len(io.detected))
            dec == After(io'.decoded, Len(io.decoded))
            n == Len(io'.listed)
        IN  /\ IsPrefix(io.listed, io'.listed)
            /\ IsPrefix(io.detected, io'.detected)
            /\ IsPrefix(io.decoded, io'.decoded)
            /\ io'.converted = io.converted
            /\ \A i \in 1..Len(det) : Matches(det[i], gen.pattern)
            /\ \A i \in 1..Len(dec) : Matches(dec[i], gen.pattern)
            /\ \A i \in 1..(Len(det) - 1) : detect_filetype(det[i]) # "fits"
            /\ Len(dec) <= 1
            /\ io'.listed = [i \in 1..n |-> fs[i].dirpath]
            /\ ~gen.recursive => n <= 1
            /\ IsPrefix(io'.detected, MatchingPaths(n))
            /\ n > 0 => Len(io'.detected) >= Len(MatchingPaths(n - 1))
            /\ genout'.out \in {"yield", "raise", "StopIteration"}
            /\ genout'.out \in {"yield", "raise"} =>
                  /\ det # <<>>
                  /\ detect_filetype(det[Len(det)]) = "fits"
                  /\ dec = <<det[Len(det)]>>
                  /\ \E k \in 1..Len(fs[n].filenames) :
                        det[Len(det)] = fs[n].dirpath \o <<"/">> \o fs[n].filenames[k]
            /\ genout'.out = "yield" =>
                  /\ genout'.item.path = det[Len(det)]
                  /\ yielded' = Append(yielded, genout'.item)
                  /\ gen'.state = "suspended"
            /\ genout'.out \in {"raise", "StopIteration"} =>
                  yielded' = yielded /\ gen'.state = "finished"
            /\ genout'.out = "StopIteration" =>
                  /\ dec = <<>>
                  /\ Len(det) > 0 => detect_filetype(det[Len(det)]) # "fits"

\* an advance of a generator over a query result that is not finished: the
\* next block of qr is converted and no other, and no block when none is left;
\* no directory is listed, no path classified, no file decoded
LazyAdvanceQueryResult ==
    QueryScan /\ gen.state \in {"created", "suspended"} =>
        LET n == Len(io.converted)
        IN  /\ io'.listed = <<>> /\ io'.detected = <<>> /\ io'.decoded = <<>>
            /\ IF n < Len(gen.qr)
               THEN /\ io'.converted = Append(io.converted, gen.qr[n + 1])
                    /\ genout'.out \in {"yield", "raise"}
               ELSE /\ io'.converted = io.converted
                    /\ genout'.out = "StopIteration"
            /\ genout'.out = "yield" =>
                  /\ yielded' = Append(yielded, genout'.item)
                  /\ gen'.state = "suspended"
            /\ genout'.out \in {"raise", "StopIteration"} =>
                  yielded' = yielded /\ gen'.state = "finished"

\* an advance of a finished generator yields nothing and does nothing
Exhausted ==
    gen.state = "finished" =>
        /\ gen' = gen /\ io' = io /\ yielded' = yielded
        /\ genout'.out = "StopIteration"

\* C13: the sequences of entries_from_dir and entries_from_query_result are
\* lazy: the call lists no directory, classifies no path, decodes no file and
\* converts no block; each advance does only the work that produces the next
\* item (or finds that there is none); the classifier and the FITS decoder
\* are never invoked on a path that does not match the pattern; an exhausted
\* sequence yields nothing further.
C13_LazySequences ==
    [][LazyCall /\ LazyAdvanceDir /\ LazyAdvanceQueryResult /\ Exhausted]_vars

\* a recursive scan for '*a.f' stands at its first item: the file before it
\* does not match and was not classified, the subdirectory is not listed yet
C13_Witness ==
    /\ DirScan /\ gen.state = "suspended" /\ gen.recursive
    /\ gen.pattern = <<"*", "a", ".", "f">>
    /\ fs[1].filenames = <<<<"e", ".", "f">>, <<"a", ".", "f">>>>
    /\ fs[2].filenames = <<<<"a", ".", "f">>>>
    /\ io.listed = <<TopDir>>
    /\ io.detected = <<<<"t", "/", "a", ".", "f">>>>
    /\ io.decoded = io.detected
    /\ YieldedPaths = io.detected

====
